---- MODULE Spec2Model ----
(***************************************************************************)
(* AutoSTAAD: node table -> validation report -> STAAD.Pro joint file.     *)
(* Model of src/node_to_staad.py (read_node_data, validate_node_data,      *)
(* generate_staad_file, main) and of the session logic of src/app.py, over *)
(* DataFrames whose cells are missing, numbers or text.                    *)
(***************************************************************************)
EXTENDS Integers, Sequences, FiniteSets, TLC

VARIABLES
    df,       \* the NodeSet in hand (None before a load and after a failed one)
    pc,       \* the last step completed
    report,   \* what the last validate_node_data call printed and returned
    out,      \* the file model.std
    result,   \* what the last generate_staad_file call returned and reported
    out2,     \* a second destination file
    src,      \* the source file handed to read_node_data
    session,  \* st.session_state of the web host
    jobs      \* the local state of concurrent pipeline invocations

vars == <<df, pc, report, out, result, out2, src, session, jobs>>

(***************************************************************************)
(* Bounds of the model.                                                    *)
(***************************************************************************)
MaxRows == 2

(***************************************************************************)
(* Text.  A Python str is a sequence of one-character strings.  Alphabet   *)
(* lists the characters of cell text in code-point order.                  *)
(***************************************************************************)
Digits == <<"0", "1", "2", "3", "4", "5", "6", "7", "8", "9">>

Alphabet == <<" ", "-", ".">> \o Digits \o <<"a", "b", "c">>

Ord(c) == CHOOSE i \in DOMAIN Alphabet : Alphabet[i] = c

IsDigit(c) == \E i \in DOMAIN Digits : Digits[i] = c

DigitVal(c) == (CHOOSE i \in DOMAIN Digits : Digits[i] = c) - 1

AllDigits(s) == Len(s) > 0 /\ \A i \in DOMAIN s : IsDigit(s[i])

RECURSIVE DigitsVal(_)
DigitsVal(s) ==
    IF s = <<>> THEN 0
    ELSE 10 * DigitsVal(SubSeq(s, 1, Len(s) - 1)) + DigitVal(s[Len(s)])

RECURSIVE IntChars(_)
IntChars(n) ==
    IF n < 10 THEN <<Digits[n + 1]>>
    ELSE IntChars(n \div 10) \o <<Digits[(n % 10) + 1]>>

\* str(n) of a Python int
StrOfInt(n) == IF n < 0 THEN <<"-">> \o IntChars(-n) ELSE IntChars(n)

\* lexicographic order of two str values (Python's < on str)
RECURSIVE StrLess(_, _)
StrLess(a, b) ==
    IF b = <<>> THEN FALSE
    ELSE IF a = <<>> THEN TRUE
    ELSE IF a[1] # b[1] THEN Ord(a[1]) < Ord(b[1])
    ELSE StrLess(Tail(a), Tail(b))

(***************************************************************************)
(* Cells.  A number is held exactly, as a count of 10^-7 units; t tells    *)
(* what the cell holds: missing (NaN/None), a finite number, an infinity   *)
(* (v is its sign), or text.                                               *)
(***************************************************************************)
Unit == 10 ^ 7

NaN == [t |-> "nan", v |-> 0, s |-> <<>>]

Num(v) == [t |-> "num", v |-> v, s |-> <<>>]

Inf(sign) == [t |-> "inf", v |-> sign, s |-> <<>>]

Str(s) == [t |-> "str", v |-> 0, s |-> s]

\* pandas isna / notna on one cell
IsNA(c) == c.t = "nan"

IsNumber(c) == c.t \in {"num", "inf"}

\* float(text): [sign] digits [. digits] | [sign] . digits ; fails otherwise
Unsigned(s) == IF s # <<>> /\ s[1] \in {"-", "+"} THEN Tail(s) ELSE s

DotAt(s) == IF \E i \in DOMAIN s : s[i] = "."
            THEN CHOOSE i \in DOMAIN s : s[i] = "." /\ \A j \in 1..(i - 1) : s[j] # "."
            ELSE Len(s) + 1

IntPart(s) == SubSeq(s, 1, DotAt(s) - 1)

FracPart(s) == SubSeq(s, DotAt(s) + 1, Len(s))

IsFloatText(s) ==
    LET u == Unsigned(s) IN
    /\ u # <<>>
    /\ IntPart(u) = <<>> \/ AllDigits(IntPart(u))
    /\ FracPart(u) = <<>> \/ AllDigits(FracPart(u))
    /\ IntPart(u) # <<>> \/ FracPart(u) # <<>>

FracVal(f) ==
    LET g == SubSeq(f, 1, IF Len(f) < 7 THEN Len(f) ELSE 7)
    IN  DigitsVal(g) * (10 ^ (7 - Len(g)))

FloatOfText(s) ==
    LET u == Unsigned(s)
        m == DigitsVal(IntPart(u)) * Unit + FracVal(FracPart(u))
    IN  IF s[1] = "-" THEN -m ELSE m

\* mutant: only integer text is taken for a number
ToNumericIntOnly(c) ==
    IF c.t = "str"
    THEN IF AllDigits(Unsigned(c.s)) THEN Num(DigitsVal(Unsigned(c.s)) * Unit) ELSE NaN
    ELSE c

\* pd.to_numeric(..., errors='coerce') on one cell
ToNumeric(c) ==
    IF c.t = "str"
    THEN IF IsFloatText(c.s) THEN Num(FloatOfText(c.s)) ELSE NaN
    ELSE c

\* int(text): [sign] digits ; ValueError otherwise
IsIntText(s) == AllDigits(Unsigned(s))

IntOfText(s) ==
    IF s[1] = "-" THEN -DigitsVal(Unsigned(s)) ELSE DigitsVal(Unsigned(s))

\* truncation toward zero of a number held in units
Trunc(v) == IF v < 0 THEN -((-v) \div Unit) ELSE v \div Unit

\* int(row['node_id']): does it raise, and its value
IntRaises(c) ==
    \/ c.t \in {"nan", "inf"}
    \/ c.t = "str" /\ ~IsIntText(c.s)

PyInt(c) == IF c.t = "str" THEN IntOfText(c.s) ELSE Trunc(c.v)

\* float(row[col]) of a coerced, non-missing cell is the cell itself.
\* f"{x:.6f}": round to 10^-6 (half to even on the held value), sign kept
Round6(a) ==
    LET lo == a \div 10
        r == a % 10
    IN  IF r > 5 \/ (r = 5 /\ lo % 2 = 1) THEN lo + 1 ELSE lo

Pad6(n) ==
    LET d == IntChars(n)
    IN  [i \in 1..(6 - Len(d)) |-> "0"] \o d

Fixed6(c) ==
    IF c.t = "inf"
    THEN (IF c.v < 0 THEN <<"-">> ELSE <<>>) \o <<"i", "n", "f">>
    ELSE LET a == IF c.v < 0 THEN -c.v ELSE c.v
             q == Round6(a)
         IN  (IF c.v < 0 THEN <<"-">> ELSE <<>>)
                 \o IntChars(q \div (10 ^ 6)) \o <<".">> \o Pad6(q % (10 ^ 6))

(***************************************************************************)
(* DataFrames.  columns is the header in file order; every row maps each   *)
(* column name to a cell.  Row order is source order.                      *)
(***************************************************************************)
required_columns == <<"node_id", "x", "y", "z">>

COORDS == <<"x", "y", "z">>

Range(q) == {q[i] : i \in DOMAIN q}

HasColumn(d, col) == col \in Range(d.columns)

\* mutant: only the coordinate columns are looked for
MissingCoordColumns(d) == SelectSeq(COORDS, LAMBDA col : ~HasColumn(d, col))

\* [col for col in required_columns if col not in df.columns]
MissingColumns(d) == SelectSeq(required_columns, LAMBDA col : ~HasColumn(d, col))

\* mutant: the result of dropna is not kept
DropNAUnassigned(rows, subset) == rows

\* df.dropna(subset=...) on the rows
DropNA(rows, subset) ==
    SelectSeq(rows, LAMBDA r : \A i \in DOMAIN subset : ~IsNA(r[subset[i]]))

\* the values pandas hashes for duplicated(subset=...): equal numbers are
\* equal, equal text is equal, a number never equals text
Key(r, subset) == [i \in DOMAIN subset |-> r[subset[i]]]

\* rows[rows.duplicated(subset=subset, keep=False)]
Duplicated(rows, subset) ==
    SelectSeq(rows, LAMBDA r :
        Cardinality({j \in DOMAIN rows : Key(rows[j], subset) = Key(r, subset)}) > 1)

\* Series.unique(): distinct values in order of first appearance
RECURSIVE Unique(_)
Unique(q) ==
    IF q = <<>> THEN <<>>
    ELSE LET u == Unique(SubSeq(q, 1, Len(q) - 1))
             e == q[Len(q)]
         IN  IF e \in Range(u) THEN u ELSE Append(u, e)

Column(rows, col) == [i \in DOMAIN rows |-> rows[i][col]]

\* mutant: only the repeats of an id are counted
CountRepeats(rows, id) == Cardinality({j \in DOMAIN rows : rows[j]["node_id"] = id}) - 1

\* len(duplicate_ids[duplicate_ids['node_id'] == dup_id])
CountId(rows, id) == Cardinality({j \in DOMAIN rows : rows[j]["node_id"] = id})

\* mutant: the column is tested for missing values without coercing it
NonNumericRaw(rows, col) == SelectSeq(rows, LAMBDA r : IsNA(r[col]))

\* df_clean[pd.to_numeric(df_clean[col], errors='coerce').isna()]
NonNumeric(rows, col) == SelectSeq(rows, LAMBDA r : IsNA(ToNumeric(r[col])))

(***************************************************************************)
(* validate_node_data.  The report holds what the transcript prints:       *)
(* executed lists the checks that ran, the other fields their findings.    *)
(***************************************************************************)
NoReport ==
    [executed |-> <<>>, passed |-> FALSE,
     missing_columns |-> <<>>, available |-> <<>>,
     missing_count |-> 0, duplicate_ids |-> <<>>, duplicate_coords |-> <<>>,
     non_numeric_errors |-> <<>>, valid_nodes |-> 0]

DuplicateIdReport(df_clean) ==
    LET duplicate_ids == Duplicated(df_clean, <<"node_id">>)
        duplicate_id_list == Unique(Column(duplicate_ids, "node_id"))
    IN  [k \in DOMAIN duplicate_id_list |->
            [node_id |-> duplicate_id_list[k],
             count |-> CountId(duplicate_ids, duplicate_id_list[k])]]

DuplicateCoordReport(df_clean) ==
    LET duplicate_coords == Duplicated(df_clean, COORDS)
    IN  [k \in DOMAIN duplicate_coords |->
            [node_id |-> duplicate_coords[k]["node_id"],
             x |-> duplicate_coords[k]["x"],
             y |-> duplicate_coords[k]["y"],
             z |-> duplicate_coords[k]["z"]]]

\* mutant: every column's entry is computed from column x
ColumnErrorX(df_clean, col) ==
    LET non_numeric == NonNumeric(df_clean, "x")
    IN  [column |-> col, count |-> Len(non_numeric),
         node_ids |-> Column(non_numeric, "node_id")]

ColumnError(df_clean, col) ==
    LET non_numeric == NonNumeric(df_clean, col)
    IN  [column |-> col, count |-> Len(non_numeric),
         node_ids |-> Column(non_numeric, "node_id")]

NonNumericReport(df_clean) ==
    LET all == [i \in DOMAIN COORDS |-> ColumnError(df_clean, COORDS[i])]
    IN  SelectSeq(all, LAMBDA e : e.count > 0)

validate_node_data(d) ==
    LET missing_columns == MissingColumns(d)
        df_clean == DropNA(d.rows, required_columns)
        missing_count == Len(d.rows) - Len(df_clean)
        dup_ids == DuplicateIdReport(df_clean)
        dup_coords == DuplicateCoordReport(df_clean)
        non_numeric_errors == NonNumericReport(df_clean)
        validation_passed ==
            /\ missing_count = 0
            /\ dup_ids = <<>>
            /\ dup_coords = <<>>
            /\ non_numeric_errors = <<>>
    IN  IF missing_columns # <<>>
        THEN [NoReport EXCEPT !.executed = <<1>>,
                              !.missing_columns = missing_columns,
                              !.available = d.columns]
        ELSE [executed |-> <<1, 2, 3, 4, 5>>,
              passed |-> validation_passed,
              missing_columns |-> <<>>,
              available |-> <<>>,
              missing_count |-> missing_count,
              duplicate_ids |-> dup_ids,
              duplicate_coords |-> dup_coords,
              non_numeric_errors |-> non_numeric_errors,
              valid_nodes |-> IF validation_passed THEN Len(df_clean) ELSE 0]

(***************************************************************************)
(* generate_staad_file.  The destination is a sequence of lines, a line a  *)
(* sequence of characters (without its newline).                           *)
(***************************************************************************)
\* "STAAD SPACE"
LineStaadSpace ==
    <<"S", "T", "A", "A", "D", " ", "S", "P", "A", "C", "E">>

\* "START JOB INFORMATION"
LineStartJob ==
    <<"S", "T", "A", "R", "T", " ", "J", "O", "B", " ", "I", "N", "F", "O",
      "R", "M", "A", "T", "I", "O", "N">>

\* "ENGINEER DATE 01-Jan-2025"
LineEngineerDate ==
    <<"E", "N", "G", "I", "N", "E", "E", "R", " ", "D", "A", "T", "E", " ",
      "0", "1", "-", "J", "a", "n", "-", "2", "0", "2", "5">>

\* "END JOB INFORMATION"
LineEndJob ==
    <<"E", "N", "D", " ", "J", "O", "B", " ", "I", "N", "F", "O", "R", "M",
      "A", "T", "I", "O", "N">>

\* "UNIT METER KN"
LineUnit ==
    <<"U", "N", "I", "T", " ", "M", "E", "T", "E", "R", " ", "K", "N">>

\* "JOINT COORDINATES"
LineJoint ==
    <<"J", "O", "I", "N", "T", " ", "C", "O", "O", "R", "D", "I", "N", "A",
      "T", "E", "S">>

\* "END JOINT COORDINATES"
LineEndJoint ==
    <<"E", "N", "D", " ", "J", "O", "I", "N", "T", " ", "C", "O", "O", "R",
      "D", "I", "N", "A", "T", "E", "S">>

Header ==
    <<LineStaadSpace, LineStartJob, LineEngineerDate, LineEndJob, LineUnit,
      <<>>, LineJoint>>

\* a coercion that also mirrors the axis in place: df[col] = -pd.to_numeric(...)
CoerceColumnMirrored(rows, col) ==
    [i \in DOMAIN rows |->
        [rows[i] EXCEPT ![col] = LET c == ToNumeric(@)
                                 IN  IF c.t = "num" THEN Num(0 - c.v) ELSE c]]

\* df[col] = pd.to_numeric(df[col], errors='coerce')
CoerceColumn(rows, col) ==
    [i \in DOMAIN rows |-> [rows[i] EXCEPT ![col] = ToNumeric(@)]]

\* the three assignments in order; the first absent column raises KeyError
\* and leaves the earlier columns coerced
RECURSIVE CoerceUpTo(_, _, _)
CoerceUpTo(d, rows, k) ==
    IF k > Len(COORDS) \/ ~HasColumn(d, COORDS[k]) THEN rows
    ELSE CoerceUpTo(d, CoerceColumn(rows, COORDS[k]), k + 1)

\* order of two node_id values of one kind (numbers, or text)
Ext(c) == IF c.t = "inf" THEN c.v * (10 ^ 15) ELSE c.v

KeyLess(a, b) ==
    IF a.t = "str" THEN StrLess(a.s, b.s) ELSE Ext(a) < Ext(b)

\* numbers and text in one column cannot be ordered: TypeError
MixedKinds(rows, col) ==
    /\ \E i \in DOMAIN rows : rows[i][col].t = "str"
    /\ \E i \in DOMAIN rows : IsNumber(rows[i][col])

RECURSIVE InsertRow(_, _, _)
InsertRow(r, sorted, col) ==
    IF sorted = <<>> THEN <<r>>
    ELSE IF KeyLess(r[col], sorted[1][col]) THEN <<r>> \o sorted
    ELSE <<sorted[1]>> \o InsertRow(r, Tail(sorted), col)

RECURSIVE SortRows(_, _)
SortRows(rows, col) ==
    IF rows = <<>> THEN <<>>
    ELSE InsertRow(rows[Len(rows)], SortRows(SubSeq(rows, 1, Len(rows) - 1), col), col)

\* df.sort_values(col): ascending, missing keys last, equal keys in source
\* order (the sort of a short column is an insertion sort)
SortValues(rows, col) ==
    SortRows(SelectSeq(rows, LAMBDA r : ~IsNA(r[col])), col)
        \o SelectSeq(rows, LAMBDA r : IsNA(r[col]))

\* f"{node_id} {x:.6f} {y:.6f} {z:.6f}"
NodeLine(row) ==
    StrOfInt(PyInt(row["node_id"])) \o <<" ">> \o Fixed6(row["x"]) \o <<" ">>
        \o Fixed6(row["y"]) \o <<" ">> \o Fixed6(row["z"])

\* the rows written before int(row['node_id']) first raises
Writable(rows) ==
    IF \E i \in DOMAIN rows : IntRaises(rows[i]["node_id"])
    THEN (CHOOSE i \in DOMAIN rows :
            /\ IntRaises(rows[i]["node_id"])
            /\ \A j \in 1..(i - 1) : ~IntRaises(rows[j]["node_id"])) - 1
    ELSE Len(rows)

NoResult == [called |-> FALSE, success |-> FALSE, written |-> 0]

Failed == [called |-> TRUE, success |-> FALSE, written |-> 0]

NoFile == [exists |-> FALSE, lines |-> <<>>]

\* the call's effect: the frame as left (coerced in place), the destination
\* and the returned result
generate_staad_file(d, dest) ==
    LET coerced == [d EXCEPT !.rows = CoerceUpTo(d, d.rows, 1)]
        df_clean == DropNA(coerced.rows, COORDS)
        df_sorted == SortValues(df_clean, "node_id")
        n == Writable(df_sorted)
        lines == [i \in 1..n |-> NodeLine(df_sorted[i])]
    IN  IF \E i \in DOMAIN COORDS : ~HasColumn(d, COORDS[i])
        THEN [df |-> coerced, out |-> dest, result |-> Failed]
        ELSE IF ~HasColumn(d, "node_id") \/ MixedKinds(df_clean, "node_id")
        THEN [df |-> coerced, out |-> dest, result |-> Failed]
        ELSE IF n < Len(df_sorted)
        THEN [df |-> coerced,
              out |-> [exists |-> TRUE, lines |-> Header \o lines],
              result |-> Failed]
        ELSE [df |-> coerced,
              out |-> [exists |-> TRUE,
                       lines |-> Header \o lines \o <<LineEndJoint>>],
              result |-> [called |-> TRUE, success |-> TRUE,
                          written |-> Len(df_sorted)]]

(***************************************************************************)
(* The NodeSets of the model.  A column of a CSV file is all numbers or    *)
(* all text; a spreadsheet column may mix number cells and text cells.     *)
(***************************************************************************)
ColumnLists ==
    {<<"node_id", "x", "y", "z">>, <<"node_id", "x", "y">>, <<"label", "y", "x">>}

\* cells for the validator's cases: missing ids and z, ids 1 and 2, the
\* texts "5", "5.0", "7" and "abc"
ValidatorCells(col) ==
    CASE col = "node_id" -> {NaN, Num(1 * Unit), Num(2 * Unit)}
      [] col = "x" ->
            {Str(<<"5">>), Str(<<"5", ".", "0">>), Str(<<"7">>), Str(<<"a", "b", "c">>)}
      [] col = "y" -> {Num(0), Str(<<"a", "b", "c">>)}
      [] col = "z" -> {Num(0), NaN}
      [] OTHER -> {Str(<<"a">>)}

\* cells for the emitter's cases: ids 1, 1.5, "10", "9", "abc" and missing;
\* x = 1.2345678, "-0.5", "abc" and infinity
EmitterCells(col) ==
    CASE col = "node_id" ->
            {NaN, Num(1 * Unit), Num(15000000), Str(<<"1", "0">>), Str(<<"9">>),
             Str(<<"a", "b", "c">>)}
      [] col = "x" ->
            {Num(12345678), Str(<<"-", "0", ".", "5">>), Str(<<"a", "b", "c">>),
             Inf(1)}
      [] col = "y" -> {Num(0)}
      [] col = "z" -> {Num(0)}
      [] OTHER -> {Str(<<"a">>)}

\* cells for the numeric check's cases: each of x, y, z numeric or "abc"
CoordinateCells(col) ==
    CASE col = "node_id" -> {NaN, Num(1 * Unit), Num(2 * Unit)}
      [] col = "x" -> {Str(<<"5">>), Str(<<"a", "b", "c">>)}
      [] col = "y" -> {Num(0), Str(<<"a", "b", "c">>)}
      [] col = "z" -> {Num(0), Str(<<"a", "b", "c">>)}
      [] OTHER -> {Str(<<"a">>)}

RowsOver(cols, Cells(_)) ==
    {r \in [Range(cols) -> UNION {Cells(c) : c \in Range(cols)}] :
        \A c \in Range(cols) : r[c] \in Cells(c)}

\* the parts of the state that belong to the loader, the web host and the
\* concurrent invocations, where these take no part
NoSource == [exists |-> FALSE, ext |-> "", parses |-> FALSE,
             table |-> [columns |-> <<>>, rows |-> <<>>]]

NoSession == <<>>

NoJobs == <<>>

(***************************************************************************)
(* read_node_data.  A source file is a path (does it exist, what does it   *)
(* end with) and a content (the table the parser makes of it, and whether  *)
(* the parser completes or raises).                                        *)
(***************************************************************************)
\* Python's None, in the place of a frame
None == [columns |-> <<>>, rows |-> <<>>, none |-> TRUE]

\* endings of a path; ".txt" stands for every other ending
Extensions == {".csv", ".xlsx", ".xls", ".txt"}

\* a loader that keeps the rows parsed before the parser gave up
read_node_data_lenient(f) ==
    IF ~f.exists THEN None
    ELSE IF f.ext \in {".xlsx", ".xls", ".csv"}
    THEN (IF f.parses THEN f.table
          ELSE [f.table EXCEPT !.rows = SubSeq(@, 1, Len(@) - 1)])
    ELSE None

read_node_data(f) ==
    IF ~f.exists THEN None
    ELSE IF f.ext \in {".xlsx", ".xls"}
    THEN (IF f.parses THEN f.table ELSE None)
    ELSE IF f.ext = ".csv"
    THEN (IF f.parses THEN f.table ELSE None)
    ELSE None

\* cells of the files given to main: ids 1 and 2, x as text or number
MainCells(col) ==
    CASE col = "node_id" -> {Num(1 * Unit), Num(2 * Unit)}
      [] col = "x" -> {Str(<<"5">>), Num(12345678)}
      [] col = "y" -> {Num(0)}
      [] col = "z" -> {Num(0)}
      [] OTHER -> {Str(<<"a">>)}

(***************************************************************************)
(* The state machine: a NodeSet is loaded; validation and generation are   *)
(* calls on it, in any order and any number of times (generation may be    *)
(* forced on a set that failed validation).                                *)
(***************************************************************************)
Start(Cells(_)) ==
    /\ \E cols \in ColumnLists : \E n \in 0..MaxRows :
          \E rows \in [1..n -> RowsOver(cols, Cells)] :
             df = [columns |-> cols, rows |-> rows]
    /\ pc = "loaded"
    /\ report = NoReport
    /\ out = NoFile
    /\ result = NoResult
    /\ out2 = NoFile
    /\ src = NoSource
    /\ session = NoSession
    /\ jobs = NoJobs

Init == Start(ValidatorCells)

InitEmit == Start(EmitterCells)

InitCoordinates == Start(CoordinateCells)

\* a validator that cleaned the frame it was given: dropna(inplace=True)
ValidateInPlace ==
    /\ report' = validate_node_data(df)
    /\ pc' = "validated"
    /\ df' = IF MissingColumns(df) = <<>>
             THEN [df EXCEPT !.rows = DropNA(df.rows, required_columns)]
             ELSE df
    /\ UNCHANGED <<out, result, out2, src, session, jobs>>

Validate ==
    /\ report' = validate_node_data(df)
    /\ pc' = "validated"
    /\ UNCHANGED <<df, out, result, out2, src, session, jobs>>

Generate ==
    LET g == generate_staad_file(df, out)
    IN  /\ df' = g.df
        /\ out' = g.out
        /\ result' = g.result
        /\ pc' = "generated"
        /\ UNCHANGED <<report, out2, src, session, jobs>>

Next == Validate \/ Generate

\* a second call on the frame as the first call left it, to the second
\* destination
GenerateAgain ==
    /\ pc = "generated"
    /\ LET g == generate_staad_file(df, out2)
       IN  /\ df' = g.df
           /\ out2' = g.out
           /\ result' = g.result
    /\ pc' = "generated_again"
    /\ UNCHANGED <<report, out, src, session, jobs>>

NextRepeat == Validate \/ Generate \/ GenerateAgain

Spec == Init /\ [][Next]_vars

SpecEmit == InitEmit /\ [][Next]_vars

SpecCoordinates == InitCoordinates /\ [][Next]_vars

SpecRepeat == InitEmit /\ [][NextRepeat]_vars

(***************************************************************************)
(* main: read, validate, generate to model.std, returning after a failed   *)
(* read and after a failed validation.                                     *)
(***************************************************************************)
InitMain ==
    /\ \E cols \in ColumnLists : \E n \in 0..MaxRows :
          \E rows \in [1..n -> RowsOver(cols, MainCells)] :
             \E e \in BOOLEAN : \E x \in Extensions : \E p \in BOOLEAN :
                src = [exists |-> e, ext |-> x, parses |-> p,
                       table |-> [columns |-> cols, rows |-> rows]]
    /\ df = None
    /\ pc = "start"
    /\ report = NoReport
    /\ out = NoFile
    /\ result = NoResult
    /\ out2 = NoFile
    /\ session = NoSession
    /\ jobs = NoJobs

MainRead ==
    /\ pc = "start"
    /\ df' = read_node_data(src)
    /\ pc' = IF read_node_data(src) = None THEN "read_failed" ELSE "loaded"
    /\ UNCHANGED <<report, out, result, out2, src, session, jobs>>

\* a main that goes on to generate whatever the verdict
MainValidateIgnored ==
    /\ pc = "loaded"
    /\ report' = validate_node_data(df)
    /\ pc' = "validated"
    /\ UNCHANGED <<df, out, result, out2, src, session, jobs>>

MainValidate ==
    /\ pc = "loaded"
    /\ report' = validate_node_data(df)
    /\ pc' = IF validate_node_data(df).passed THEN "validated"
             ELSE "validation_failed"
    /\ UNCHANGED <<df, out, result, out2, src, session, jobs>>

MainGenerate ==
    /\ pc = "validated"
    /\ LET g == generate_staad_file(df, out)
       IN  /\ df' = g.df
           /\ out' = g.out
           /\ result' = g.result
    /\ pc' = "generated"
    /\ UNCHANGED <<report, out2, src, session, jobs>>

NextMain == MainRead \/ MainValidate \/ MainGenerate

SpecMain == InitMain /\ [][NextMain]_vars

(***************************************************************************)
(* The web host (src/app.py).  Every interaction of a session reruns main  *)
(* from the top with that session's st.session_state: the upload is saved  *)
(* and read again, then the sections run down to the first st.stop().  An  *)
(* action is one rerun.  session[s] holds st.session_state of session s    *)
(* together with what its page shows: the file in the uploader (NoSource   *)
(* when empty), the content behind the download button (NoFile when the    *)
(* button is not shown) and the interaction that caused the last rerun.    *)
(* In these specifications src and df are the file and the frame of the    *)
(* last rerun, report and result those of the last call.                   *)
(***************************************************************************)
\* cells of uploaded tables: a number or a text as node_id
WebCells(col) ==
    CASE col = "node_id" -> {Num(1 * Unit), Str(<<"a", "b", "c">>)}
      [] col = "x" -> {Num(12345678)}
      [] col = "y" -> {Num(0)}
      [] col = "z" -> {Num(0)}
      [] OTHER -> {Str(<<"a">>)}

\* an upload the parser cannot read
CorruptUpload ==
    [exists |-> TRUE, ext |-> ".xlsx", parses |-> FALSE,
     table |-> [columns |-> <<>>, rows |-> <<>>]]

NewSession ==
    [upload |-> NoSource, validation_passed |-> FALSE, df_loaded |-> None,
     staad_generated |-> FALSE, download |-> NoFile, step |-> "start"]

InitWeb ==
    /\ session = <<NewSession>>
    /\ df = None
    /\ pc = "start"
    /\ report = NoReport
    /\ out = NoFile
    /\ result = NoResult
    /\ out2 = NoFile
    /\ src = NoSource
    /\ jobs = NoJobs

\* the rerun gets past both st.stop(): the upload reads and has the columns
Reaches(u) ==
    /\ u # NoSource
    /\ read_node_data(u) # None
    /\ MissingColumns(read_node_data(u)) = <<>>

\* the download section: the button with the content of model.std, or the
\* flag reset when the file is not there
DownloadSection(ss, file) ==
    IF ss.staad_generated
    THEN IF file.exists THEN [ss EXCEPT !.download = file]
         ELSE [ss EXCEPT !.staad_generated = FALSE, !.download = NoFile]
    ELSE [ss EXCEPT !.download = NoFile]

\* a rerun in which no button was clicked, with file u in the uploader
Rerun(ss, u) ==
    LET d == read_node_data(u)
    IN  IF u = NoSource \/ d = None THEN [ss EXCEPT !.download = NoFile]
        ELSE IF MissingColumns(d) # <<>>
        THEN [ss EXCEPT !.df_loaded = d, !.download = NoFile]
        ELSE DownloadSection([ss EXCEPT !.df_loaded = d], out)

\* the user puts file u in the uploader of session s
UploadFile(s, u) ==
    /\ session' = [session EXCEPT
                      ![s] = Rerun([session[s] EXCEPT !.upload = u,
                                                      !.step = "upload"], u)]
    /\ pc' = "uploaded"
    /\ src' = u
    /\ df' = read_node_data(u)
    /\ UNCHANGED <<report, out, result, out2, jobs>>

Upload(s) ==
    \/ \E cols \in ColumnLists : \E n \in 0..MaxRows :
          \E rows \in [1..n -> RowsOver(cols, WebCells)] :
             UploadFile(s, [exists |-> TRUE, ext |-> ".csv", parses |-> TRUE,
                            table |-> [columns |-> cols, rows |-> rows]])
    \/ UploadFile(s, CorruptUpload)

\* the user clears the uploader
RemoveUpload(s) ==
    /\ session[s].upload # NoSource
    /\ session' = [session EXCEPT
                      ![s] = Rerun([session[s] EXCEPT !.upload = NoSource,
                                                      !.step = "remove"], NoSource)]
    /\ pc' = "removed"
    /\ src' = NoSource
    /\ df' = None
    /\ UNCHANGED <<report, out, result, out2, jobs>>

\* a Validate click that resets the generation status only on a pass
ClickValidateKeeping(s) ==
    /\ Reaches(session[s].upload)
    /\ LET d == read_node_data(session[s].upload)
           r == validate_node_data(d)
       IN  /\ report' = r
           /\ df' = d
           /\ session' = [session EXCEPT
                  ![s] = DownloadSection(
                            [session[s] EXCEPT
                                !.df_loaded = d,
                                !.validation_passed = r.passed,
                                !.staad_generated = IF r.passed THEN FALSE ELSE @,
                                !.step = "validate"], out)]
    /\ pc' = "validated"
    /\ src' = session[s].upload
    /\ UNCHANGED <<out, result, out2, jobs>>

\* the Validate button is on the page when the rerun reached its section
ClickValidate(s) ==
    /\ Reaches(session[s].upload)
    /\ LET d == read_node_data(session[s].upload)
           r == validate_node_data(d)
       IN  /\ report' = r
           /\ df' = d
           /\ session' = [session EXCEPT
                  ![s] = DownloadSection(
                            [session[s] EXCEPT
                                !.df_loaded = d,
                                !.validation_passed = r.passed,
                                !.staad_generated = FALSE,
                                !.step = "validate"], out)]
    /\ pc' = "validated"
    /\ src' = session[s].upload
    /\ UNCHANGED <<out, result, out2, jobs>>

\* the Generate button is on the page when validation_passed is set
ClickGenerate(s) ==
    /\ Reaches(session[s].upload)
    /\ session[s].validation_passed
    /\ LET d == read_node_data(session[s].upload)
           g == generate_staad_file(d, out)
       IN  /\ out' = g.out
           /\ result' = g.result
           /\ df' = g.df
           /\ session' = [session EXCEPT
                  ![s] = DownloadSection(
                            [session[s] EXCEPT
                                !.df_loaded = g.df,
                                !.staad_generated = g.result.success,
                                !.step = "generate"], g.out)]
    /\ pc' = "generated"
    /\ src' = session[s].upload
    /\ UNCHANGED <<report, out2, jobs>>

\* an interaction in some session
Uploads == \E s \in DOMAIN session : Upload(s)

Removals == \E s \in DOMAIN session : RemoveUpload(s)

ValidateClicks == \E s \in DOMAIN session : ClickValidate(s)

GenerateClicks == \E s \in DOMAIN session : ClickGenerate(s)

NextWeb == Uploads \/ Removals \/ ValidateClicks \/ GenerateClicks

SpecWeb == InitWeb /\ [][NextWeb]_vars

(***************************************************************************)
(* Two sessions of the web host at the same time.  The server runs each    *)
(* session's rerun in a thread of one process, so the sessions share the   *)
(* working directory and with it the name model.std.  The rerun of a       *)
(* Generate click touches model.std twice, writing it in the generation    *)
(* section and opening it in the download section, and the other session   *)
(* may run between the two.  The other reruns touch it once.  Each session *)
(* uploads a file of its own, under a name of its own, so that the         *)
(* temp_<name> copies of save_uploaded_file do not meet.                   *)
(***************************************************************************)
\* the table of session s: the node s, at a place of its own
OwnFile(s) ==
    [exists |-> TRUE, ext |-> ".csv", parses |-> TRUE,
     table |-> [columns |-> required_columns,
                rows |-> <<[c \in Range(required_columns) |->
                              IF c = "node_id" THEN Num(s * Unit)
                              ELSE IF c = "x" THEN Num(s * 12345678)
                              ELSE Num(0)]>>]]

InitSessions ==
    /\ session = <<NewSession, NewSession>>
    /\ df = None
    /\ pc = "start"
    /\ report = NoReport
    /\ out = NoFile
    /\ result = NoResult
    /\ out2 = NoFile
    /\ src = NoSource
    /\ jobs = NoJobs

\* the generation section of the rerun of a Generate click
GenerateCall(s) ==
    /\ Reaches(session[s].upload)
    /\ session[s].validation_passed
    /\ LET d == read_node_data(session[s].upload)
           g == generate_staad_file(d, out)
       IN  /\ out' = g.out
           /\ result' = g.result
           /\ df' = g.df
           /\ session' = [session EXCEPT
                             ![s].df_loaded = g.df,
                             ![s].staad_generated = g.result.success,
                             ![s].download = NoFile,
                             ![s].step = "generating"]
    /\ pc' = "generated"
    /\ src' = session[s].upload
    /\ UNCHANGED <<report, out2, jobs>>

\* the download section of that rerun
DownloadRead(s) ==
    /\ session[s].step = "generating"
    /\ session' = [session EXCEPT
                      ![s] = DownloadSection([session[s] EXCEPT !.step = "generate"],
                                             out)]
    /\ UNCHANGED <<df, pc, report, out, result, out2, src, jobs>>

OwnUploads == \E s \in DOMAIN session : UploadFile(s, OwnFile(s))

GenerateCalls == \E s \in DOMAIN session : GenerateCall(s)

DownloadReads == \E s \in DOMAIN session : DownloadRead(s)

NextSessions == OwnUploads \/ ValidateClicks \/ GenerateCalls \/ DownloadReads

SpecSessions == InitSessions /\ [][NextSessions]_vars

(***************************************************************************)
(* Concurrent invocations of the pipeline.  jobs[p] is the local state of  *)
(* invocation p: its input file, its position, its frame, the sorted rows, *)
(* the next row to write and the lines written to its file object, which   *)
(* reach the destination when the with block is left (the file object      *)
(* buffers them).  The invocations share the file system only.             *)
(***************************************************************************)
\* cells of the first invocation's input
JobCellsA(col) ==
    CASE col = "node_id" -> {Num(1 * Unit), Num(3 * Unit)}
      [] col = "x" -> {Num(12345678), Num(3 * Unit)}
      [] OTHER -> {Num(0)}

\* cells of the second invocation's input
JobCellsB(col) ==
    CASE col = "node_id" -> {Num(2 * Unit), Str(<<"a", "b", "c">>)}
      [] col = "x" -> {Str(<<"-", "0", ".", "5">>), Str(<<"7">>)}
      [] OTHER -> {Num(0)}

NewJob(table) ==
    [src |-> [exists |-> TRUE, ext |-> ".csv", parses |-> TRUE, table |-> table],
     pc |-> "start", df |-> None, df_sorted |-> <<>>, i |-> 0, written |-> <<>>]

InitJobs ==
    /\ \E n1 \in 0..MaxRows : \E n2 \in 0..MaxRows :
          \E rows1 \in [1..n1 -> RowsOver(required_columns, JobCellsA)] :
             \E rows2 \in [1..n2 -> RowsOver(required_columns, JobCellsB)] :
                jobs = <<NewJob([columns |-> required_columns, rows |-> rows1]),
                         NewJob([columns |-> required_columns, rows |-> rows2])>>
    /\ df = None
    /\ pc = "start"
    /\ report = NoReport
    /\ out = NoFile
    /\ result = NoResult
    /\ out2 = NoFile
    /\ src = NoSource
    /\ session = NoSession

\* every invocation writing to the one fixed name
JobDestFixed(p) == "model.std"

\* the destination of invocation p: each its own
JobDest(p) == IF p = 1 THEN "model.std" ELSE "model2.std"

FileAt(name) == IF name = "model.std" THEN out ELSE out2

SetFile(name, file) ==
    IF name = "model.std" THEN out' = file /\ UNCHANGED out2
    ELSE out2' = file /\ UNCHANGED out

\* closing the file object: the buffered lines go to the file from its start
Flush(written, file) ==
    [exists |-> TRUE,
     lines |-> written \o SubSeq(file.lines, Len(written) + 1, Len(file.lines))]

JobRead(p) ==
    /\ jobs[p].pc = "start"
    /\ jobs' = [jobs EXCEPT
                   ![p].df = read_node_data(jobs[p].src),
                   ![p].pc = IF read_node_data(jobs[p].src) = None
                             THEN "read_failed" ELSE "loaded"]
    /\ UNCHANGED <<df, pc, report, out, result, out2, src, session>>

JobValidate(p) ==
    /\ jobs[p].pc = "loaded"
    /\ jobs' = [jobs EXCEPT
                   ![p].pc = IF validate_node_data(jobs[p].df).passed
                             THEN "validated" ELSE "validation_failed"]
    /\ UNCHANGED <<df, pc, report, out, result, out2, src, session>>

\* lines 173-181: coerce in place, drop, sort; sort_values raises on a
\* column mixing text and numbers
JobSort(p) ==
    /\ jobs[p].pc = "validated"
    /\ LET d == jobs[p].df
           coerced == [d EXCEPT !.rows = CoerceUpTo(d, d.rows, 1)]
           df_clean == DropNA(coerced.rows, COORDS)
       IN  jobs' = [jobs EXCEPT
                      ![p].df = coerced,
                      ![p].df_sorted = IF MixedKinds(df_clean, "node_id") THEN <<>>
                                       ELSE SortValues(df_clean, "node_id"),
                      ![p].pc = IF MixedKinds(df_clean, "node_id") THEN "failed"
                                ELSE "sorted"]
    /\ UNCHANGED <<df, pc, report, out, result, out2, src, session>>

\* open(output_filename, 'w') creates or truncates the destination
JobOpen(p) ==
    /\ jobs[p].pc = "sorted"
    /\ SetFile(JobDest(p), [exists |-> TRUE, lines |-> <<>>])
    /\ jobs' = [jobs EXCEPT ![p].pc = "opened", ![p].written = <<>>]
    /\ UNCHANGED <<df, pc, report, result, src, session>>

JobHeader(p) ==
    /\ jobs[p].pc = "opened"
    /\ jobs' = [jobs EXCEPT ![p].pc = "writing", ![p].written = Header, ![p].i = 1]
    /\ UNCHANGED <<df, pc, report, out, result, out2, src, session>>

\* one turn of the loop; int(row['node_id']) raising leaves the with block
JobRow(p) ==
    /\ jobs[p].pc = "writing"
    /\ jobs[p].i <= Len(jobs[p].df_sorted)
    /\ LET row == jobs[p].df_sorted[jobs[p].i]
       IN  IF IntRaises(row["node_id"])
           THEN /\ SetFile(JobDest(p), Flush(jobs[p].written, FileAt(JobDest(p))))
                /\ jobs' = [jobs EXCEPT ![p].pc = "failed"]
           ELSE /\ jobs' = [jobs EXCEPT ![p].written = @ \o <<NodeLine(row)>>,
                                        ![p].i = @ + 1]
                /\ UNCHANGED <<out, out2>>
    /\ UNCHANGED <<df, pc, report, result, src, session>>

JobEnd(p) ==
    /\ jobs[p].pc = "writing"
    /\ jobs[p].i > Len(jobs[p].df_sorted)
    /\ SetFile(JobDest(p),
               Flush(jobs[p].written \o <<LineEndJoint>>, FileAt(JobDest(p))))
    /\ jobs' = [jobs EXCEPT ![p].pc = "done",
                            ![p].written = @ \o <<LineEndJoint>>]
    /\ UNCHANGED <<df, pc, report, result, src, session>>

\* a step of some invocation
Reads == \E p \in DOMAIN jobs : JobRead(p)

Validations == \E p \in DOMAIN jobs : JobValidate(p)

Sorts == \E p \in DOMAIN jobs : JobSort(p)

Opens == \E p \in DOMAIN jobs : JobOpen(p)

Headers == \E p \in DOMAIN jobs : JobHeader(p)

Rows == \E p \in DOMAIN jobs : JobRow(p)

Ends == \E p \in DOMAIN jobs : JobEnd(p)

NextJobs == Reads \/ Validations \/ Sorts \/ Opens \/ Headers \/ Rows \/ Ends

SpecJobs == InitJobs /\ [][NextJobs]_vars

(***************************************************************************)
(* Properties of validate_node_data.  In a state with pc = "validated" the *)
(* report is the one of the frame df, which validation leaves as it was.   *)
(***************************************************************************)
AllColumns(d) == \A i \in DOMAIN required_columns : required_columns[i] \in Range(d.columns)

RowMissing(r) == \E i \in DOMAIN required_columns : r[required_columns[i]].t = "nan"

CleanIdx(d) == {i \in DOMAIN d.rows : ~RowMissing(d.rows[i])}

Coerces(c) == c.t \in {"num", "inf"} \/ (c.t = "str" /\ IsFloatText(c.s))

SameId(r1, r2) == r1["node_id"] = r2["node_id"]

SameTriple(r1, r2) == r1["x"] = r2["x"] /\ r1["y"] = r2["y"] /\ r1["z"] = r2["z"]

RowNumeric(r) == Coerces(r["x"]) /\ Coerces(r["y"]) /\ Coerces(r["z"])

\* the five conditions of a clean NodeSet, stated on the frame itself
CleanNodeSet(d) ==
    /\ AllColumns(d)
    /\ \A i \in DOMAIN d.rows : ~RowMissing(d.rows[i])
    /\ \A i, j \in CleanIdx(d) : i # j => ~SameId(d.rows[i], d.rows[j])
    /\ \A i, j \in CleanIdx(d) : i # j => ~SameTriple(d.rows[i], d.rows[j])
    /\ \A i \in CleanIdx(d) : RowNumeric(d.rows[i])

\* C1: validate_node_data returns pass exactly when the columns are all
\* present, no row has a missing value, no two clean rows hold the same
\* node_id, no two clean rows hold the same (x, y, z) and every clean
\* coordinate coerces to a number; a run cut short by check 1 returns fail.
C1_VerdictIsConjunction ==
    pc = "validated" =>
        /\ report.passed = CleanNodeSet(df)
        /\ ~AllColumns(df) => (report.executed = <<1>> /\ ~report.passed)

C1_Witness ==
    /\ pc = "validated"
    /\ report.passed
    /\ Len(df.rows) >= 2
    /\ \E i \in DOMAIN df.rows : df.rows[i]["x"] = Str(<<"7">>)

\* C2: a NodeSet with the four columns, no missing value, pairwise distinct
\* ids, pairwise distinct triples and numeric coordinates passes, and no
\* check flags a row.
C2_CleanSetPasses ==
    (pc = "validated" /\ CleanNodeSet(df)) =>
        /\ report.passed
        /\ report.executed = <<1, 2, 3, 4, 5>>
        /\ report.missing_columns = <<>>
        /\ report.missing_count = 0
        /\ report.duplicate_ids = <<>>
        /\ report.duplicate_coords = <<>>
        /\ report.non_numeric_errors = <<>>
        /\ report.valid_nodes = Len(df.rows)

C2_Witness ==
    /\ pc = "validated"
    /\ CleanNodeSet(df)
    /\ Len(df.rows) >= 2
    /\ \E i \in DOMAIN df.rows : df.rows[i]["x"] = Str(<<"5", ".", "0">>)

\* C3: when a required column is absent, validation fails right after
\* check 1, reports the absent names (in the order node_id, x, y, z) and
\* the names present, and runs and reports none of checks 2 to 5.
C3_MissingColumnShortCircuit ==
    (pc = "validated" /\ ~AllColumns(df)) =>
        /\ ~report.passed
        /\ report.executed = <<1>>
        /\ Range(report.missing_columns) = Range(required_columns) \ Range(df.columns)
        /\ \A i, j \in DOMAIN report.missing_columns :
              i < j => \E a, b \in DOMAIN required_columns :
                          /\ a < b
                          /\ required_columns[a] = report.missing_columns[i]
                          /\ required_columns[b] = report.missing_columns[j]
        /\ report.available = df.columns
        /\ report.missing_count = 0
        /\ report.duplicate_ids = <<>>
        /\ report.duplicate_coords = <<>>
        /\ report.non_numeric_errors = <<>>

C3_Witness ==
    /\ pc = "validated"
    /\ report.missing_columns = <<"node_id", "z">>
    /\ Len(df.rows) >= 1

\* C4: with the columns present and a row that has a missing value,
\* validation fails but checks 3, 4 and 5 still run, on the clean rows only:
\* the counts of the duplicate-id groups, the rows listed as duplicate
\* coordinates and the non-numeric counts are those of the clean rows.
C4_ChecksUseCleanSubset ==
    (pc = "validated" /\ AllColumns(df) /\ CleanIdx(df) # DOMAIN df.rows) =>
        /\ ~report.passed
        /\ report.executed = <<1, 2, 3, 4, 5>>
        /\ report.missing_count = Cardinality(DOMAIN df.rows \ CleanIdx(df))
        /\ \A k \in DOMAIN report.duplicate_ids :
              /\ report.duplicate_ids[k].node_id.t # "nan"
              /\ report.duplicate_ids[k].count =
                    Cardinality({i \in CleanIdx(df) :
                        df.rows[i]["node_id"] = report.duplicate_ids[k].node_id})
              /\ report.duplicate_ids[k].count >= 2
        /\ \A k \in DOMAIN report.duplicate_coords :
              \E i, j \in CleanIdx(df) :
                  /\ i # j
                  /\ SameTriple(df.rows[i], df.rows[j])
                  /\ report.duplicate_coords[k].node_id = df.rows[i]["node_id"]
                  /\ report.duplicate_coords[k].x = df.rows[i]["x"]
                  /\ report.duplicate_coords[k].y = df.rows[i]["y"]
                  /\ report.duplicate_coords[k].z = df.rows[i]["z"]
        /\ \A k \in DOMAIN report.non_numeric_errors :
              LET e == report.non_numeric_errors[k]
              IN  /\ e.count = Cardinality({i \in CleanIdx(df) :
                                               ~Coerces(df.rows[i][e.column])})
                  /\ \A n \in DOMAIN e.node_ids : e.node_ids[n].t # "nan"

\* a row without z that has the id of a clean row and a non-numeric x, and
\* neither is reported
C4_Witness ==
    /\ pc = "validated"
    /\ AllColumns(df)
    /\ \E i \in DOMAIN df.rows \ CleanIdx(df) : \E j \in CleanIdx(df) :
          /\ SameId(df.rows[i], df.rows[j])
          /\ ~Coerces(df.rows[i]["x"])
          /\ df.rows[i]["z"].t = "nan"
    /\ report.duplicate_ids = <<>>
    /\ report.non_numeric_errors = <<>>

\* the row is one of those the duplicate-coordinate check lists
ListedAsDuplicateCoords(r) ==
    \E k \in DOMAIN report.duplicate_coords :
        /\ report.duplicate_coords[k].node_id = r["node_id"]
        /\ report.duplicate_coords[k].x = r["x"]
        /\ report.duplicate_coords[k].y = r["y"]
        /\ report.duplicate_coords[k].z = r["z"]

\* two rows whose coordinates are the same numbers once coerced
CoercedEqual(r1, r2) ==
    /\ RowNumeric(r1) /\ RowNumeric(r2)
    /\ ToNumeric(r1["x"]) = ToNumeric(r2["x"])
    /\ ToNumeric(r1["y"]) = ToNumeric(r2["y"])
    /\ ToNumeric(r1["z"]) = ToNumeric(r2["z"])

\* C5: two clean rows whose x, y, z are the same numbers, however they are
\* written ("5" and "5.0"), are both reported as duplicate coordinates and
\* validation fails.
C5_CoercedTriplesCompared ==
    (pc = "validated" /\ AllColumns(df)) =>
        \A i, j \in CleanIdx(df) :
            (i # j /\ CoercedEqual(df.rows[i], df.rows[j])) =>
                /\ ~report.passed
                /\ ListedAsDuplicateCoords(df.rows[i])
                /\ ListedAsDuplicateCoords(df.rows[j])

\* the ids held by more than one clean row
RepeatedIds(d) ==
    {d.rows[i]["node_id"] : i \in {a \in CleanIdx(d) :
        \E b \in CleanIdx(d) : a # b /\ SameId(d.rows[a], d.rows[b])}}

\* the clean rows that have the triple of another clean row
SharedTripleIdx(d) ==
    {a \in CleanIdx(d) : \E b \in CleanIdx(d) : a # b /\ SameTriple(d.rows[a], d.rows[b])}

\* C6: the duplicate-id check fails exactly when an id is held by more than
\* one clean row; it reports each such id once, with the number of clean rows
\* that hold it; the duplicate-coordinate check lists every clean row that
\* has the triple of another, and no other row.
C6_DuplicateGroupsReported ==
    (pc = "validated" /\ AllColumns(df)) =>
        /\ (report.duplicate_ids # <<>>) = (RepeatedIds(df) # {})
        /\ report.duplicate_ids # <<>> => ~report.passed
        /\ {report.duplicate_ids[k].node_id : k \in DOMAIN report.duplicate_ids}
              = RepeatedIds(df)
        /\ Len(report.duplicate_ids) = Cardinality(RepeatedIds(df))
        /\ \A k \in DOMAIN report.duplicate_ids :
              report.duplicate_ids[k].count =
                  Cardinality({i \in CleanIdx(df) :
                      df.rows[i]["node_id"] = report.duplicate_ids[k].node_id})
        /\ \A i \in SharedTripleIdx(df) : ListedAsDuplicateCoords(df.rows[i])
        /\ Len(report.duplicate_coords) = Cardinality(SharedTripleIdx(df))
        /\ report.duplicate_coords # <<>> => ~report.passed

\* the rows (1, ...), (1, ...) with one triple: id 1 with count 2, both listed
C6_Witness ==
    /\ pc = "validated"
    /\ Len(df.rows) = 2
    /\ report.duplicate_ids = <<[node_id |-> Num(1 * Unit), count |-> 2]>>
    /\ Len(report.duplicate_coords) = 2

\* the entry of the numeric check for a column, if it has one
EntriesFor(col) ==
    {k \in DOMAIN report.non_numeric_errors : report.non_numeric_errors[k].column = col}

\* the clean rows whose value in the column does not coerce
BadIdx(d, col) == {i \in CleanIdx(d) : ~Coerces(d.rows[i][col])}

\* q lists the node ids of the rows idx in source order
ListsIdsOf(q, d, idx) ==
    /\ Len(q) = Cardinality(idx)
    /\ \E f \in [DOMAIN q -> idx] :
          /\ \A a, b \in DOMAIN q : a < b => f[a] < f[b]
          /\ \A a \in DOMAIN q : q[a] = d.rows[f[a]]["node_id"]

\* C7: for each of x, y, z on its own, the numeric check reports the count
\* and the node ids of exactly the clean rows whose value in that column
\* does not coerce; a column without such a row has no entry; validation
\* fails when a column has an entry.
C7_NumericCheckPerColumn ==
    (pc = "validated" /\ AllColumns(df)) =>
        /\ \A c \in DOMAIN COORDS :
              LET col == COORDS[c]
                  bad == BadIdx(df, col)
              IN  /\ bad = {} => EntriesFor(col) = {}
                  /\ bad # {} =>
                        /\ Cardinality(EntriesFor(col)) = 1
                        /\ \A k \in EntriesFor(col) :
                              /\ report.non_numeric_errors[k].count = Cardinality(bad)
                              /\ ListsIdsOf(report.non_numeric_errors[k].node_ids, df, bad)
        /\ \A k \in DOMAIN report.non_numeric_errors :
              report.non_numeric_errors[k].column \in Range(COORDS)
        /\ report.non_numeric_errors # <<>> => ~report.passed

\* x fails in rows 2 and 1, z in row 1, y in none: an entry for x with
\* count 2, none for y, an entry for z with count 1
C7_Witness ==
    /\ pc = "validated"
    /\ Len(df.rows) = 2
    /\ report.non_numeric_errors =
          <<[column |-> "x", count |-> 2,
             node_ids |-> <<Num(2 * Unit), Num(1 * Unit)>>],
            [column |-> "z", count |-> 1, node_ids |-> <<Num(1 * Unit)>>]>>

(***************************************************************************)
(* Properties of generate_staad_file.  In a state with pc = "generated",   *)
(* out and result are those of the call, and df is the frame as the call   *)
(* left it: same rows, same order, same ids, x, y, z coerced.              *)
(***************************************************************************)
\* the fields of a line, cut at its spaces
RECURSIVE Fields(_)
Fields(line) ==
    IF \E i \in DOMAIN line : line[i] = " "
    THEN LET k == CHOOSE i \in DOMAIN line :
                      line[i] = " " /\ \A j \in 1..(i - 1) : line[j] # " "
         IN  <<SubSeq(line, 1, k - 1)>> \o Fields(SubSeq(line, k + 1, Len(line)))
    ELSE <<line>>

\* the lines between JOINT COORDINATES and the last line
NodeLines(o) == SubSeq(o.lines, Len(Header) + 1, Len(o.lines) - 1)

\* text of a plain integer: digits, after a minus sign if negative
IsPlainInteger(s) == AllDigits(IF s # <<>> /\ s[1] = "-" THEN Tail(s) ELSE s)

\* text of a fixed-point number with six decimals
IsSixDecimals(s) ==
    LET u == IF s # <<>> /\ s[1] = "-" THEN Tail(s) ELSE s
    IN  /\ Len(u) >= 8
        /\ u[Len(u) - 6] = "."
        /\ AllDigits(SubSeq(u, 1, Len(u) - 7))
        /\ AllDigits(SubSeq(u, Len(u) - 5, Len(u)))

\* the node id written on a node line
WrittenId(line) == IntOfText(Fields(line)[1])

\* the rows generation keeps: x, y and z all numbers
Retained(d) ==
    {i \in DOMAIN d.rows : \A c \in DOMAIN COORDS : Coerces(d.rows[i][COORDS[c]])}

\* C8: the node lines of a generated file are in ascending numeric node_id
\* order, whatever the order of the rows.  (The claim says strictly
\* ascending; the order already fails without the strictness.)
C8_NodeLinesAscending ==
    (pc = "generated" /\ result.success) =>
        \A i, j \in DOMAIN NodeLines(out) :
            i < j => WrittenId(NodeLines(out)[i]) <= WrittenId(NodeLines(out)[j])

\* C9: a successful generation writes the five header lines, a blank line,
\* JOINT COORDINATES, one line "<node_id> <x> <y> <z>" per retained row with
\* node_id a plain integer and x, y, z fixed-point with six decimals, then
\* END JOINT COORDINATES, and nothing else.
C9_FileFormat ==
    (pc = "generated" /\ result.success) =>
        /\ out.exists
        /\ Len(out.lines) = 8 + Cardinality(Retained(df))
        /\ SubSeq(out.lines, 1, 7) =
              <<LineStaadSpace, LineStartJob, LineEngineerDate, LineEndJob,
                LineUnit, <<>>, LineJoint>>
        /\ out.lines[Len(out.lines)] = LineEndJoint
        /\ \A i \in DOMAIN NodeLines(out) :
              LET f == Fields(NodeLines(out)[i])
              IN  /\ Len(f) = 4
                  /\ IsPlainInteger(f[1])
                  /\ IsSixDecimals(f[2])
                  /\ IsSixDecimals(f[3])
                  /\ IsSixDecimals(f[4])

\* C10: on a NodeSet that has the four columns, whatever its values,
\* generation succeeds, writes a line for exactly the rows whose x, y and z
\* coerce to numbers, and reports that number as the written count.
C10_NeverFailsOnBadData ==
    (pc = "generated" /\ AllColumns(df)) =>
        /\ result.success
        /\ Len(NodeLines(out)) = Cardinality(Retained(df))
        /\ result.written = Len(NodeLines(out))

\* C11: a failed generation leaves no partial file: the destination does not
\* hold header or node lines without the closing END JOINT COORDINATES.
C11_NoPartialFile ==
    (pc = "generated" /\ ~result.success) =>
        ~(/\ out.exists
          /\ out.lines # <<>>
          /\ out.lines[Len(out.lines)] # LineEndJoint)

\* C12: generation is repeatable: after a validated NodeSet was written to
\* one destination and then, as that call left it, to a second one, the two
\* destinations hold the same file, line for line (and neither holds one
\* when the calls failed before opening it).
C12_SecondCallWritesSameFile ==
    (pc = "generated_again" /\ report.passed) => out2 = out

\* a validated set with a text coordinate -0.5, written twice in full
C12_Witness ==
    /\ pc = "generated_again"
    /\ report.passed
    /\ result.success
    /\ Len(NodeLines(out2)) = 2
    /\ \E i \in DOMAIN NodeLines(out2) :
          Fields(NodeLines(out2)[i])[2] = <<"-", "0", ".", "5", "0", "0", "0", "0", "0">>
    /\ \E i \in DOMAIN df.rows : df.rows[i]["x"] = Num(-5000000)

(***************************************************************************)
(* Properties of read_node_data and of main.                               *)
(***************************************************************************)
\* the file is there, ends with a supported extension and parses
Readable(f) == f.exists /\ f.ext \in {".csv", ".xlsx", ".xls"} /\ f.parses

\* C13: read_node_data returns the whole table of the file or the error
\* value, never part of a table; the error value exactly when the path does
\* not exist, the extension is none of .csv, .xlsx, .xls, or the parser
\* fails.
C13_WholeTableOrError ==
    /\ pc = "loaded" => (Readable(src) /\ df = src.table)
    /\ pc = "read_failed" => (~Readable(src) /\ df = None)
    /\ pc \in {"validated", "validation_failed"} => df = src.table

\* a .csv file with two rows on which the parser raised: None, not the rows
C13_Witness ==
    /\ pc = "read_failed"
    /\ src.exists
    /\ src.ext = ".csv"
    /\ ~src.parses
    /\ Len(src.table.rows) = 2
    /\ df = None

\* C14: main reads, validates and generates in that order; generation is
\* not called, and model.std is not written, after a failed read or a failed
\* validation; when both succeeded it is called once, on the table read,
\* with destination model.std, and nothing follows it.
C14_MainRunsInOrder ==
    /\ [](/\ report.executed # <<>> => (Readable(src) /\ pc # "loaded")
          /\ result.called => (pc = "generated" /\ report.passed)
          /\ pc \in {"read_failed", "validation_failed"} =>
                (~result.called /\ out = NoFile)
          /\ pc = "read_failed" => report = NoReport
          /\ pc = "validation_failed" => ~report.passed
          /\ pc = "generated" =>
                /\ result.called
                /\ out = generate_staad_file(src.table, NoFile).out
                /\ out2 = NoFile)
    /\ [][result.called => UNCHANGED <<out, out2, result>>]_vars

\* read and validation succeeded on an .xlsx file; model.std has both nodes
C14_Witness ==
    /\ pc = "generated"
    /\ src.ext = ".xlsx"
    /\ report.passed
    /\ result.success
    /\ Len(NodeLines(out)) = 2
    /\ out2 = NoFile

(***************************************************************************)
(* Properties of the web host.                                             *)
(***************************************************************************)
\* C15: in a web session generate_staad_file is called only on a data set
\* that validate_node_data passes: after a Generate click, the uploaded
\* table the call worked on is one on which validation returns pass.
C15_GenerateOnlyOnValidated ==
    \A s \in DOMAIN session :
        session[s].step = "generate" =>
            validate_node_data(read_node_data(session[s].upload)).passed

\* C18: after a Validate click, whatever the verdict, staad_generated is
\* False and the download button is not shown; the flag becomes True again
\* only in a rerun for a Generate click whose call succeeded.
C18_ValidateResetsGenerated ==
    /\ [](\A s \in DOMAIN session :
             /\ session[s].step = "validate" =>
                   (~session[s].staad_generated /\ session[s].download = NoFile)
             /\ session[s].download # NoFile => session[s].staad_generated)
    /\ [][\A s \in DOMAIN session :
             (~session[s].staad_generated /\ session'[s].staad_generated) =>
                 (session'[s].step = "generate" /\ result'.success)]_vars

\* a Validate click with a failed verdict while model.std is there from an
\* earlier generation: the flag is down and the button is gone
C18_Witness ==
    \E s \in DOMAIN session :
        /\ session[s].step = "validate"
        /\ ~session[s].validation_passed
        /\ out.exists
        /\ result.success
        /\ ~session[s].staad_generated
        /\ session[s].download = NoFile

\* C21: whenever a session's page shows the download button, the model.std
\* behind it is the file generation makes of the data set now in that
\* session's uploader.
C21_DownloadIsOfCurrentUpload ==
    \A s \in DOMAIN session :
        session[s].download # NoFile =>
            session[s].download =
                generate_staad_file(read_node_data(session[s].upload), NoFile).out

\* C22: with two sessions at the same time, the file behind a session's
\* download button is the one that session generated, which is the file
\* generation makes of the only table the session uploads.
C22_DownloadIsOwnFile ==
    \A s \in DOMAIN session :
        session[s].download # NoFile =>
            session[s].download = generate_staad_file(OwnFile(s).table, NoFile).out

(***************************************************************************)
(* Properties of concurrent invocations.                                   *)
(***************************************************************************)
Finished(p) ==
    jobs[p].pc \in {"read_failed", "validation_failed", "failed", "done"}

\* what the pipeline makes of an input when it runs alone
Alone(f) ==
    IF read_node_data(f) = None THEN NoFile
    ELSE IF ~validate_node_data(read_node_data(f)).passed THEN NoFile
    ELSE generate_staad_file(read_node_data(f), NoFile).out

\* C16: two invocations on different inputs with distinct destinations do
\* not interfere, however their steps interleave: once an invocation has
\* finished, its destination holds what the pipeline makes of its own input
\* when it runs alone, and keeps holding it.
C16_NoInterference ==
    \A p \in DOMAIN jobs :
        Finished(p) => FileAt(JobDest(p)) = Alone(jobs[p].src)

\* both invocations done: the first file has the nodes 1 and 3 of its input
\* (given as 3, 1), the second the node 2 of its own
C16_Witness ==
    /\ jobs[1].pc = "done"
    /\ jobs[2].pc = "done"
    /\ Len(jobs[1].src.table.rows) = 2
    /\ jobs[1].src.table.rows[1]["node_id"] = Num(3 * Unit)
    /\ Len(NodeLines(out)) = 2
    /\ WrittenId(NodeLines(out)[1]) = 1
    /\ WrittenId(NodeLines(out)[2]) = 3
    /\ Len(NodeLines(out2)) = 1
    /\ WrittenId(NodeLines(out2)[1]) = 2

(***************************************************************************)
(* Validation followed by generation: what a call leaves of the frame, and *)
(* what a passed validation promises about the file.                       *)
(***************************************************************************)
\* C17: validation leaves the frame it was given as it was: the same rows in
\* the same order with the same values, whichever checks ran.
C17_ValidateLeavesFrame == [][pc' = "validated" => df' = df]_vars

\* validated with a missing row and a text coordinate, both still in the frame
C17_Witness ==
    /\ pc = "validated"
    /\ report.missing_count = 1
    /\ Len(df.rows) = 2
    /\ \E i \in DOMAIN df.rows : RowMissing(df.rows[i])
    /\ \E i \in DOMAIN df.rows : df.rows[i]["x"].t = "str"

\* C19: when validation passed, generation on that NodeSet succeeds and
\* writes one node line per row.
C19_PassedSetIsWritten ==
    (pc = "generated" /\ report.passed) =>
        /\ result.success
        /\ Len(NodeLines(out)) = Len(df.rows)

\* C20: when validation passed and generation succeeded, the node ids
\* written to the file are pairwise distinct.
C20_WrittenIdsDistinct ==
    (pc = "generated" /\ report.passed /\ result.success) =>
        \A i, j \in DOMAIN NodeLines(out) :
            i # j => WrittenId(NodeLines(out)[i]) # WrittenId(NodeLines(out)[j])

====
